---- MODULE Spec2Model ----
(***************************************************************************)
(* Model of server.js: an Express service that drives one shared puppeteer *)
(* browser.  Each HTTP request is an async handler; JavaScript runs one    *)
(* continuation at a time, so every action below is the code that runs     *)
(* between two awaits of one handler.                                      *)
(*                                                                         *)
(* Environment assumptions: the browser process, once launched, stays      *)
(* alive (no crash is modelled), hence page.close() resolves; every other  *)
(* awaited library call may resolve or reject.                             *)
(***************************************************************************)
EXTENDS Integers, Sequences, FiniteSets, TLC

\* Number of HTTP requests the service receives in a run of Spec.
NReq == 2

\* Number of requests in a run of SpecPool, where only the steps of
\* ensureBrowser are taken.
NCallers == 3

\* Largest number of elements of an array, and of properties of an object, in the
\* upstream payloads of SpecScan.
MaxWidth == 2

-----------------------------------------------------------------------------
(* JavaScript values.  Strings are sequences of characters.                *)

Undefined == [t |-> "undefined"]
Null      == [t |-> "null"]
Str(s)    == [t |-> "string", s |-> s]
Num(n)    == [t |-> "number", n |-> n]
Bool(b)   == [t |-> "boolean", b |-> b]
Arr(xs)   == [t |-> "array", items |-> xs]
Obj(ps)   == [t |-> "object", props |-> ps]
Prop(k, v) == [k |-> k, v |-> v]

\* ToBoolean, as used by !x, x || y and if (x)
Truthy(v) ==
  CASE v.t = "undefined" -> FALSE
    [] v.t = "null"      -> FALSE
    [] v.t = "string"    -> v.s # <<>>
    [] v.t = "number"    -> v.n # 0
    [] v.t = "boolean"   -> v.b
    [] OTHER             -> TRUE

\* the typeof operator
TypeOf(v) ==
  CASE v.t = "null"  -> "object"
    [] v.t = "array" -> "object"
    [] OTHER         -> v.t

\* Array.isArray
IsArray(v) == v.t = "array"

\* obj[k] for a parsed JSON object: the last property named k, or undefined
Get(o, k) ==
  IF o.t # "object" THEN Undefined
  ELSE LET idx == {i \in 1..Len(o.props) : o.props[i].k = k}
       IN IF idx = {} THEN Undefined
          ELSE o.props[CHOOSE i \in idx : \A j \in idx : j <= i].v

\* a || b
OrElse(a, b) == IF Truthy(a) THEN a ELSE b

\* String.prototype.startsWith
StartsWith(s, p) == Len(s) >= Len(p) /\ SubSeq(s, 1, Len(p)) = p

\* String.prototype.includes
Includes(s, p) ==
  \E i \in 1..(Len(s) - Len(p) + 1) : SubSeq(s, i, i + Len(p) - 1) = p

-----------------------------------------------------------------------------
(* Request bodies the clients send.                                        *)

TargetUrl == <<"h","t","t","p","s",":","/","/","e","x",".","c","o","m","/","x">>

AutolinkBodies ==
  { Undefined,
    Obj(<<Prop("download", Bool(TRUE))>>),
    Obj(<<Prop("url", Str(<<>>)), Prop("download", Bool(TRUE))>>),
    Obj(<<Prop("url", Null)>>),
    Obj(<<Prop("url", Num(5)), Prop("download", Bool(TRUE))>>),
    Obj(<<Prop("url", Num(0))>>),
    Obj(<<Prop("url", Bool(TRUE))>>),
    Obj(<<Prop("url", Arr(<<Str(TargetUrl)>>))>>),
    Obj(<<Prop("url", Str(TargetUrl))>>),
    Obj(<<Prop("url", Str(TargetUrl)), Prop("download", Bool(TRUE))>>) }

LoginBodies ==
  { Undefined,
    Obj(<<Prop("cookies", Arr(<<Obj(<<Prop("name", Str(<<"s">>))>>)>>))>>),
    Obj(<<Prop("cookies", Str(<<"s">>))>>) }

-----------------------------------------------------------------------------
(* Errors thrown by library calls, and the text a handler reports.         *)

LaunchErrors ==
  { [message |-> "Failed to launch the browser process"],
    [message |-> "Timed out after 60000 ms while waiting for the browser"] }

NullDeref == [message |-> "Cannot read properties of null (reading 'newPage')"]

\* err.message || String(err)
ErrText(err) == IF err.message # "" THEN err.message ELSE "Error"

-----------------------------------------------------------------------------
VARIABLES
  browser,           \* the module variable browser: 0 is null, k > 0 the handle of launch k
  browserLaunching,  \* the module variable browserLaunching
  launchLog,         \* history: outcome of every puppeteer.launch call, in call order
  pages,             \* the open pages, each named by the request that opened it
  env,               \* process.env: the two optional credential variables
  req                \* per request: position in its handler, locals, response, and
                     \* history: body (the body of an /autolink request), net (what
                     \* the in-page fetch did), mine and saw (the launch the call of
                     \* ensureBrowser started, or found in flight), probe (what the
                     \* isGoogleLoggedIn call that returned in the request's last
                     \* step found and returned), attempt (what attemptGoogleLogin
                     \* returned to /autolink in the request's last step)

vars == <<browser, browserLaunching, launchLog, pages, env, req>>

\* process.env with the credentials unset, or set by the operator
Envs ==
  { [GOOGLE_EMAIL |-> Undefined, GOOGLE_PASS |-> Undefined],
    [GOOGLE_EMAIL |-> Str(<<"u">>), GOOGLE_PASS |-> Str(<<"p">>)] }

NoResult == Undefined
NoNet == [fetch |-> "none", status |-> 0, read |-> "none", json |-> FALSE,
          value |-> Undefined, message |-> ""]
NoRes == [status |-> 0, started |-> FALSE, ended |-> FALSE, body |-> [none |-> TRUE]]
NoProbe == [ran |-> FALSE, ok |-> FALSE, url |-> <<>>, logged |-> FALSE]

\* a request that has not arrived yet
Fresh ==
  [ pc |-> "idle", route |-> "none", body |-> Undefined, download |-> Undefined,
    b |-> 0, page |-> 0, result |-> NoResult, fileUrl |-> Undefined, res |-> NoRes,
    cookies |-> FALSE, net |-> NoNet, mine |-> 0, saw |-> 0, probe |-> NoProbe,
    attempt |-> Undefined ]

Init ==
  /\ browser = 0
  /\ browserLaunching = FALSE
  /\ launchLog = <<>>
  /\ pages = {}
  /\ env \in Envs
  /\ req = [r \in 1..NReq |-> Fresh]

\* the handler returned: its locals are gone, the history fields stay
Returned(q) ==
  [q EXCEPT !.pc = "done", !.download = Undefined, !.cookies = FALSE,
            !.b = 0, !.page = 0, !.result = NoResult, !.fileUrl = Undefined,
            !.net = NoNet, !.probe = NoProbe, !.attempt = Undefined]

\* res.status(code).json(body): one complete JSON reply
Reply(q, code, body) ==
  [Returned(q) EXCEPT
     !.res = [status |-> code, started |-> TRUE, ended |-> TRUE, body |-> body]]

\* catch (err) { return res.status(500).json({ ok: false, error: ... }) }
Catch500(q, err) ==
  Reply(q, 500, [ok |-> FALSE, error |-> ErrText(err)])

-----------------------------------------------------------------------------
(* ensureBrowser                                                           *)

Pending == [st |-> "pending", message |-> ""]

\* ensureBrowser without the test of browserLaunching
ensureBrowserPath_NoFlag ==
  IF browser # 0 THEN "reuse" ELSE "launch"

\* ensureBrowser without the test of the existing handle
ensureBrowserPath_NoReuse ==
  IF browserLaunching THEN "wait" ELSE "launch"

\* which branch a call of ensureBrowser takes
ensureBrowserPath ==
  IF browser # 0 THEN "reuse"
  ELSE IF browserLaunching THEN "wait"
  ELSE "launch"

\* a waiter that sleeps once instead of looping
PollAgain_Once == FALSE

\* the condition of the polling loop: while (browserLaunching && !browser)
PollAgain == browserLaunching /\ browser = 0

\* a catch that rethrows without clearing the flag
LaunchingAfterCatch_Stuck == TRUE

\* catch (e) { browserLaunching = false; throw e; }
LaunchingAfterCatch == FALSE

\* b = <value returned by ensureBrowser>; const page = await b.newPage()
CallNewPage(q, b) ==
  IF b = 0 THEN Catch500([q EXCEPT !.b = b], NullDeref)
  ELSE [q EXCEPT !.b = b, !.pc = "newPage"]

\* the code of ensureBrowser up to its first await (or its return)
EnsureBrowser(r, q) ==
  LET path == ensureBrowserPath IN
  /\ UNCHANGED <<pages, env>>
  /\ IF path = "reuse" THEN
       /\ req' = [req EXCEPT ![r] = CallNewPage(q, browser)]
       /\ UNCHANGED <<browser, browserLaunching, launchLog>>
     ELSE IF path = "wait" THEN
       /\ req' = [req EXCEPT ![r] = [q EXCEPT !.pc = "waiting", !.saw = Len(launchLog)]]
       /\ UNCHANGED <<browser, browserLaunching, launchLog>>
     ELSE
       /\ browserLaunching' = TRUE
       /\ launchLog' = Append(launchLog, Pending)
       /\ req' = [req EXCEPT ![r] = [q EXCEPT !.pc = "launching",
                                              !.mine = Len(launchLog) + 1]]
       /\ UNCHANGED browser

\* puppeteer.launch resolved: browser = <handle>; browserLaunching = false; return browser
LaunchOk(r) ==
  /\ req[r].pc = "launching"
  /\ browser' = req[r].mine
  /\ browserLaunching' = FALSE
  /\ launchLog' = [launchLog EXCEPT ![req[r].mine].st = "ok"]
  /\ req' = [req EXCEPT ![r] = CallNewPage(req[r], browser')]
  /\ UNCHANGED <<pages, env>>

\* puppeteer.launch rejected: browserLaunching = false; throw e, caught by the handler
LaunchFail(r) ==
  /\ req[r].pc = "launching"
  /\ \E e \in LaunchErrors :
       /\ launchLog' = [launchLog EXCEPT ![req[r].mine] =
                          [st |-> "failed", message |-> e.message]]
       /\ req' = [req EXCEPT ![r] = Catch500(req[r], e)]
  /\ browserLaunching' = LaunchingAfterCatch
  /\ UNCHANGED <<browser, pages, env>>

\* the 200 ms timer of a waiting call fires and the loop condition is tested again
Poll(r) ==
  /\ req[r].pc = "waiting"
  /\ IF PollAgain THEN req' = req
     ELSE req' = [req EXCEPT ![r] = CallNewPage(req[r], browser)]
  /\ UNCHANGED <<browser, browserLaunching, launchLog, pages, env>>

-----------------------------------------------------------------------------
(* The handlers, from the arrival of the request to the first await.       *)

\* a validation that only tests !url
UrlInvalid_FalsyOnly(url) == ~Truthy(url)

\* if (!url || typeof url !== 'string')
UrlInvalid(url) == ~Truthy(url) \/ TypeOf(url) # "string"

\* requests are numbered in arrival order
MayArrive(r) ==
  /\ req[r].pc = "idle"
  /\ \A p \in DOMAIN req : p < r => req[p].pc # "idle"

\* a handler that raises the launch flag before it validates the body
BadRequest_Launches(r, q) ==
  /\ req' = [req EXCEPT ![r] = Reply(q, 400, [error |-> "Missing \"url\" in body"])]
  /\ browserLaunching' = TRUE
  /\ UNCHANGED <<browser, launchLog, pages, env>>

\* return res.status(400).json({ error: 'Missing "url" in body' }), the first
\* statement of the handler that has an effect
BadRequest(r, q) ==
  /\ req' = [req EXCEPT ![r] = Reply(q, 400, [error |-> "Missing \"url\" in body"])]
  /\ UNCHANGED <<browser, browserLaunching, launchLog, pages, env>>

\* app.post('/autolink'): destructure the body, validate, then ensureBrowser
AutolinkStart(r) ==
  /\ MayArrive(r)
  /\ \E body \in AutolinkBodies :
       LET bd       == OrElse(body, Obj(<<>>))
           url      == Get(bd, "url")
           download == Get(bd, "download")
           q        == [Fresh EXCEPT !.route = "autolink", !.body = body,
                                     !.download = download]
       IN IF UrlInvalid(url) THEN BadRequest(r, q) ELSE EnsureBrowser(r, q)

\* req.body && req.body.cookies && Array.isArray(req.body.cookies)
HasCookies(body) ==
  Truthy(body) /\ Truthy(Get(body, "cookies")) /\ IsArray(Get(body, "cookies"))

\* app.post('/login'): ensureBrowser
LoginStart(r) ==
  /\ MayArrive(r)
  /\ \E body \in LoginBodies :
       EnsureBrowser(r, [Fresh EXCEPT !.route = "login", !.cookies = HasCookies(body)])

-----------------------------------------------------------------------------
(* Credentials (process configuration) and the two Google helpers.         *)

\* stand-ins for the two literals of lines 31 and 32 (both non-empty; the literal
\* of line 31 lacks its closing quote in the source and is read as intended)
DefaultEmail == Str(<<"m","@","g">>)
DefaultPass  == Str(<<"p","w">>)

\* process.env.GOOGLE_EMAIL || '<literal>' and process.env.GOOGLE_PASS || '<literal>'
GOOGLE_EMAIL == OrElse(env.GOOGLE_EMAIL, DefaultEmail)
GOOGLE_PASS  == OrElse(env.GOOGLE_PASS, DefaultPass)

\* the URL isGoogleLoggedIn navigates to, and URLs the navigation can end on
AccountUrl == <<"h","t","t","p","s",":","/","/","m","y","a","c","c","o","u","n","t",".","g","o","o","g","l","e",".","c","o","m","/","?","u","t","m","_","s","o","u","r","c","e","=","s","i","g","n","i","n">>
SignInUrl  == <<"h","t","t","p","s",":","/","/","a","c","c","o","u","n","t","s",".","g","o","o","g","l","e",".","c","o","m","/","v","3","/","s","i","g","n","i","n","/","i","d","e","n","t","i","f","i","e","r">>
HomeUrl    == <<"h","t","t","p","s",":","/","/","m","y","a","c","c","o","u","n","t",".","g","o","o","g","l","e",".","c","o","m","/">>

\* outcomes of page.goto in isGoogleLoggedIn: it throws, or it ends on a final URL
ProbeNavs ==
  { [ok |-> FALSE, url |-> <<>>] } \cup
  { [ok |-> TRUE, url |-> u] : u \in {AccountUrl, SignInUrl, HomeUrl} }

\* isGoogleLoggedIn, given what page.goto did
isGoogleLoggedIn(nav) ==
  IF ~nav.ok THEN FALSE
  ELSE IF Includes(nav.url, <<"a","c","c","o","u","n","t","s",".","g","o","o","g","l","e",".","c","o","m">>) \/ Includes(nav.url, <<"s","i","g","n","i","n">>)
       THEN FALSE
       ELSE TRUE

-----------------------------------------------------------------------------
(* The handlers after ensureBrowser returned.                              *)

shared == <<browser, browserLaunching, launchLog, env>>

StepError == [message |-> "Navigation timeout exceeded"]

\* const gLogged / already = await isGoogleLoggedIn(page): its page.goto is started
CallProbe(q) == [q EXCEPT !.pc = "probe"]

\* the history of the ensureBrowser call is kept until b.newPage() settles
PastEnsure(q) == [q EXCEPT !.b = 0, !.mine = 0, !.saw = 0]

\* b.newPage() resolved.  /login sets the cookies first when the body has them,
\* /autolink sets the viewport; then the authentication probe starts.
NewPageOk(r) ==
  /\ req[r].pc = "newPage"
  /\ pages' = pages \cup {r}
  /\ LET q == [PastEnsure(req[r]) EXCEPT !.page = r, !.cookies = FALSE] IN
     req' = [req EXCEPT ![r] =
       IF q.route = "login"
       THEN IF req[r].cookies THEN [q EXCEPT !.pc = "setCookie"] ELSE CallProbe(q)
       ELSE [q EXCEPT !.pc = "setViewport"]]
  /\ UNCHANGED shared

\* b.newPage() rejected: no page exists, the handler's catch answers 500
NewPageFail(r) ==
  /\ req[r].pc = "newPage"
  /\ req' = [req EXCEPT ![r] = Catch500(PastEnsure(req[r]), StepError)]
  /\ UNCHANGED <<shared, pages>>

\* /login: page.setCookie settled; a rejection is caught and logged
SetCookieDone(r) ==
  /\ req[r].pc = "setCookie"
  /\ req' = [req EXCEPT ![r] = CallProbe(req[r])]
  /\ UNCHANGED <<shared, pages>>

\* /autolink: page.setViewport resolved
SetViewportOk(r) ==
  /\ req[r].pc = "setViewport"
  /\ req' = [req EXCEPT ![r] = CallProbe(req[r])]
  /\ UNCHANGED <<shared, pages>>

\* /autolink: page.setViewport rejected; the handler's catch answers 500
SetViewportFail(r) ==
  /\ req[r].pc = "setViewport"
  /\ req' = [req EXCEPT ![r] = Catch500(req[r], StepError)]
  /\ UNCHANGED <<shared, pages>>

\* attemptGoogleLogin up to its first await
CallLogin(q) ==
  IF ~Truthy(GOOGLE_EMAIL) \/ ~Truthy(GOOGLE_PASS)
  THEN [q EXCEPT !.pc = "loginDone",
                 !.result = [ok |-> FALSE,
                             reason |-> [text |-> "Missing GOOGLE_EMAIL or GOOGLE_PASS",
                                         detail |-> ""]]]
  ELSE [q EXCEPT !.pc = "lg_setUserAgent"]

\* /autolink: page.goto('https://j2download.com/vi') is started
CallGotoSite(q) == [q EXCEPT !.pc = "gotoSite", !.result = NoResult]

\* await page.close() is started; the value to answer with is kept in result
CallClose(q, value) == [q EXCEPT !.pc = "closing", !.result = value]

\* an /autolink handler that gives up when the login attempt failed
AfterLogin_Fatal(q, attempt) ==
  IF q.route = "login" THEN CallClose(q, attempt)
  ELSE IF attempt.ok THEN [CallGotoSite(q) EXCEPT !.attempt = attempt]
  ELSE Catch500(q, [message |-> "Auto-login incomplete"])

\* the caller's code after attemptGoogleLogin returned `attempt`: /login closes the
\* page and answers with it, /autolink logs it and goes on
AfterLogin(q, attempt) ==
  IF q.route = "login" THEN CallClose(q, attempt)
  ELSE [CallGotoSite(q) EXCEPT !.attempt = attempt]

\* callers that attempt the login whatever the probe returned
AfterProbe_AlwaysLogin(q, logged) == CallLogin(q)

\* the caller's code after the first isGoogleLoggedIn returned `logged`
AfterProbe(q, logged) ==
  IF q.route = "login"
  THEN IF logged
       THEN CallClose(q, [ok |-> TRUE, message |-> "Already logged in (detected)"])
       ELSE CallLogin(q)
  ELSE IF ~logged /\ Truthy(GOOGLE_EMAIL) /\ Truthy(GOOGLE_PASS)
       THEN CallLogin(q)
       ELSE CallGotoSite(q)

\* a login attempt that returned at once (missing credentials) goes on in the caller
Settle(q) == IF q.pc = "loginDone" THEN AfterLogin(q, q.result) ELSE q

\* history: isGoogleLoggedIn returned `logged` after the navigation nav
Probed(q, nav, logged) ==
  [q EXCEPT !.probe = [ran |-> TRUE, ok |-> nav.ok, url |-> nav.url, logged |-> logged]]

\* the history of a probe and of a login attempt is kept for one step of the request
Step(q) == [q EXCEPT !.probe = NoProbe, !.attempt = Undefined]

\* the page.goto of the first isGoogleLoggedIn settled
Probe(r) ==
  /\ req[r].pc = "probe"
  /\ \E nav \in ProbeNavs :
       LET logged == isGoogleLoggedIn(nav) IN
       req' = [req EXCEPT ![r] = Probed(Settle(AfterProbe(req[r], logged)), nav, logged)]
  /\ UNCHANGED <<shared, pages>>

-----------------------------------------------------------------------------
(* attemptGoogleLogin, one awaited call at a time.                         *)

\* the awaited calls of the flow that end it when they throw, or have a fallback
LoginCalls ==
  { "lg_setUserAgent", "lg_goto", "lg_waitEmail", "lg_typeEmail", "lg_clickNext",
    "lg_enterNext", "lg_waitPassword", "lg_typePassword", "lg_clickPasswordNext",
    "lg_enterPasswordNext", "lg_waitForNavigation" }

\* the call that follows when a call resolves
LoginAfter(pc) ==
  CASE pc = "lg_setUserAgent"        -> "lg_goto"
    [] pc = "lg_goto"                -> "lg_waitEmail"
    [] pc = "lg_waitEmail"           -> "lg_typeEmail"
    [] pc = "lg_typeEmail"           -> "lg_clickNext"
    [] pc = "lg_clickNext"           -> "lg_waitPassword"
    [] pc = "lg_enterNext"           -> "lg_waitPassword"
    [] pc = "lg_waitPassword"        -> "lg_typePassword"
    [] pc = "lg_typePassword"        -> "lg_clickPasswordNext"
    [] pc = "lg_clickPasswordNext"   -> "lg_waitForNavigation"
    [] pc = "lg_enterPasswordNext"   -> "lg_waitForNavigation"
    [] pc = "lg_waitForNavigation"   -> "lg_probe"

\* where a rejection of a call is handled: the inner catch of a click presses Enter,
\* .catch(() => {}) ignores a failed waitForNavigation, the outer catch ends the flow
LoginOnThrow(pc) ==
  CASE pc = "lg_clickNext"           -> "lg_enterNext"
    [] pc = "lg_clickPasswordNext"   -> "lg_enterPasswordNext"
    [] pc = "lg_waitForNavigation"   -> "lg_probe"
    [] OTHER                         -> "catch"

\* a catch that returns no reason
LoginException_NoReason(err) == [ok |-> FALSE]

\* catch (err) { return { ok: false, reason: `Exception during login: ${err.message}` } }
LoginException(err) ==
  [ok |-> FALSE, reason |-> [text |-> "Exception during login: ", detail |-> err.message]]

LoginCallOk(r) ==
  /\ req[r].pc \in LoginCalls
  /\ req' = [req EXCEPT ![r] = [Step(req[r]) EXCEPT !.pc = LoginAfter(req[r].pc)]]
  /\ UNCHANGED <<shared, pages>>

LoginCallThrows(r) ==
  /\ req[r].pc \in LoginCalls \cup {"lg_bodyText"}
  /\ req' = [req EXCEPT ![r] =
       IF LoginOnThrow(req[r].pc) = "catch"
       THEN AfterLogin(Step(req[r]), LoginException(StepError))
       ELSE [Step(req[r]) EXCEPT !.pc = LoginOnThrow(req[r].pc)]]
  /\ UNCHANGED <<shared, pages>>

\* const logged = await isGoogleLoggedIn(page); if (logged) return { ok: true }
LoginProbe(r) ==
  /\ req[r].pc = "lg_probe"
  /\ \E nav \in ProbeNavs :
       LET logged == isGoogleLoggedIn(nav) IN
       req' = [req EXCEPT ![r] =
         Probed(IF logged THEN AfterLogin(req[r], [ok |-> TRUE])
                ELSE [req[r] EXCEPT !.pc = "lg_bodyText"], nav, logged)]
  /\ UNCHANGED <<shared, pages>>

\* the letters the /i flag folds, for the texts of BodyTexts
LowerCase(c) ==
  CASE c = "V" -> "v"
    [] c = "C" -> "c"
    [] c = "S" -> "s"
    [] c = "H" -> "h"
    [] c = "W" -> "w"
    [] c = "A" -> "a"
    [] c = "P" -> "p"
    [] c = "T" -> "t"
    [] OTHER -> c

ToLower(s) == [i \in 1..Len(s) |-> LowerCase(s[i])]

ChallengeWords ==
  { <<"v","e","r","i","f","y">>, <<"v","e","r","i","f","i","c","a","t","i","o","n">>, <<"2","-","s","t","e","p">>, <<"2"," ","s","t","e","p">>, <<"c","h","a","l","l","e","n","g","e">>, <<"c","a","p","t","c","h","a">> }

\* /verify|verification|2-step|2 step|challenge|captcha/i.test(bodyText)
LooksLikeChallenge(text) == \E w \in ChallengeWords : Includes(ToLower(text), w)

\* document.body.innerText || '' after a login that was not confirmed
BodyTexts == { <<>>, <<"V","e","r","i","f","y"," ","i","t","'","s"," ","y","o","u">>, <<"W","r","o","n","g"," ","p","a","s","s","w","o","r","d">>, <<"S","o","l","v","e"," ","t","h","e"," ","C","A","P","T","C","H","A">> }

\* the classification of an unconfirmed login by the visible text
LoginUnconfirmed(text) ==
  IF LooksLikeChallenge(text)
  THEN [ok |-> FALSE,
        reason |-> [text |-> "Google requested 2FA/CAPTCHA or extra verification",
                    detail |-> ""]]
  ELSE [ok |-> FALSE,
        reason |-> [text |-> "Unknown - login not confirmed", detail |-> ""]]

LoginBodyText(r) ==
  /\ req[r].pc = "lg_bodyText"
  /\ \E text \in BodyTexts :
       req' = [req EXCEPT ![r] = AfterLogin(Step(req[r]), LoginUnconfirmed(text))]
  /\ UNCHANGED <<shared, pages>>

-----------------------------------------------------------------------------
(* /autolink: the site navigation, the in-page call and the reply.         *)

\* page.goto('https://j2download.com/vi') settled (a rejection is caught and logged);
\* callAutolinkFromPage starts page.evaluate
GotoSiteDone(r) ==
  /\ req[r].pc = "gotoSite"
  /\ req' = [req EXCEPT ![r] = [Step(req[r]) EXCEPT !.pc = "evaluate"]]
  /\ UNCHANGED <<shared, pages>>

FileUrl == <<"h","t","t","p",":","/","/","f","/","x">>

\* bodies the upstream API answers with (parsed JSON)
Payloads ==
  { Obj(<<Prop("link", Str(FileUrl))>>),
    Obj(<<Prop("title", Str(<<"a">>))>>),
    Arr(<<Num(0), Obj(<<Prop("a", Null), Prop("b", Str(FileUrl))>>)>>),
    Null }

\* one outcome of fetch and resp.text() inside the page
Net(fetch, status, read, json, value, message) ==
  [fetch |-> fetch, status |-> status, read |-> read, json |-> json,
   value |-> value, message |-> message]

\* what fetch and resp.text() do inside the page: the fetch rejects, the body read
\* rejects, or a status arrives with a text.  The text is given by what JSON.parse
\* does with it: json says whether it parses, value is the parsed value when it
\* does and the text itself (a string) when it does not.
NetOutcomes ==
  { Net("reject", 0, "none", FALSE, Undefined, "Failed to fetch"),
    Net("ok", 500, "reject", FALSE, Undefined, "network error"),
    Net("ok", 200, "ok", FALSE, Str(<<"<","h","t","m","l",">">>), ""),
    Net("ok", 201, "ok", TRUE, Obj(<<Prop("link", Str(FileUrl))>>), ""),
    Net("ok", 403, "ok", TRUE, Obj(<<Prop("error", Str(<<"n","o">>))>>), ""),
    Net("ok", 503, "ok", FALSE, Str(<<"b","u","s","y">>), "") } \cup
  { Net("ok", 200, "ok", TRUE, p, "") : p \in Payloads }

\* the function evaluated in the page: try { fetch, text, JSON.parse } catch { status 0 }
InPageCall(net) ==
  IF net.fetch = "reject" \/ net.read = "reject"
  THEN [t |-> "object", status |-> 0, body |-> Undefined, error |-> net.message]
  ELSE [t |-> "object", status |-> net.status, body |-> net.value, error |-> ""]

\* page.evaluate resolved with what the in-page function returned
EvaluateOk(r) ==
  /\ req[r].pc = "evaluate"
  /\ \E net \in NetOutcomes :
       req' = [req EXCEPT ![r] = [CallClose(req[r], InPageCall(net)) EXCEPT !.net = net]]
  /\ UNCHANGED <<shared, pages>>

\* page.evaluate resolved with undefined (the value could not be passed back)
EvaluateUndefined(r) ==
  /\ req[r].pc = "evaluate"
  /\ req' = [req EXCEPT ![r] = CallClose(req[r], Undefined)]
  /\ UNCHANGED <<shared, pages>>

\* page.evaluate rejected (context destroyed, protocol error): the catch answers 500
EvaluateFail(r) ==
  /\ req[r].pc = "evaluate"
  /\ req' = [req EXCEPT ![r] = Catch500(req[r], StepError)]
  /\ UNCHANGED <<shared, pages>>

\* a scan that looks at the payload itself only, not inside arrays and objects
findUrl_Shallow(obj) ==
  IF ~Truthy(obj) THEN Null
  ELSE IF TypeOf(obj) = "string"
       THEN IF StartsWith(obj.s, <<"h","t","t","p">>) THEN obj ELSE Null
  ELSE Null

RECURSIVE findUrl(_), findUrlIn(_, _)

\* for (const v of <values>) { const f = findUrl(v); if (f) return f; } return null
findUrlIn(vals, i) ==
  IF i > Len(vals) THEN Null
  ELSE LET f == findUrl(vals[i])
       IN IF Truthy(f) THEN f ELSE findUrlIn(vals, i + 1)

\* the local function findUrl of the download branch.  The props of an object
\* are listed in the order Object.keys gives them.
findUrl(obj) ==
  IF ~Truthy(obj) THEN Null
  ELSE IF TypeOf(obj) = "string"
       THEN IF StartsWith(obj.s, <<"h","t","t","p">>) THEN obj ELSE Null
  ELSE IF IsArray(obj) THEN findUrlIn(obj.items, 1)
  ELSE IF TypeOf(obj) = "object"
       THEN findUrlIn([i \in 1..Len(obj.props) |-> obj.props[i].v], 1)
  ELSE Null

\* a test that only catches a missing result
BrowserCallFailed_MissingOnly(result) == ~Truthy(result)

\* if (!result || result.status === 0)
BrowserCallFailed(result) == ~Truthy(result) \/ result.status = 0

\* a relay that answers every upstream error with 502
RelayUpstream_As502(q) ==
  Reply(q, 502, [error |-> "Upstream non-200", data |-> q.result.body])

\* res.status(result.status).json({ error: 'Upstream non-200', data: result.body })
RelayUpstream(q) ==
  Reply(q, q.result.status, [error |-> "Upstream non-200", data |-> q.result.body])

\* the code of /autolink after page.close(): from the result to the reply, or to the
\* second fetch when a file is to be streamed
Materialize(q) ==
  IF BrowserCallFailed(q.result)
  THEN Reply(q, 502, [error |-> "Request inside browser failed", details |-> q.result])
  ELSE IF q.result.status # 200 THEN RelayUpstream(q)
  ELSE IF Truthy(q.download)
       THEN IF ~Truthy(findUrl(q.result.body))
            THEN Reply(q, 200, [message |-> "No direct file URL found",
                                payload |-> q.result.body])
            ELSE [q EXCEPT !.pc = "fetching", !.fileUrl = findUrl(q.result.body),
                           !.result = NoResult, !.net = NoNet]
  ELSE Reply(q, 200, [ok |-> TRUE, payload |-> q.result.body])

\* page.close() resolved; /login answers with the outcome, /autolink materializes
CloseDone(r) ==
  /\ req[r].pc = "closing"
  /\ pages' = pages \ {req[r].page}
  /\ req' = [req EXCEPT ![r] =
       IF req[r].route = "login" THEN Reply(req[r], 200, req[r].result)
       ELSE Materialize(Step(req[r]))]
  /\ UNCHANGED shared

FetchError == [message |-> "request to file host failed"]

\* a catch that logs the error and returns without answering
FetchRejected_Silent(q) == Returned(q)

\* what the catch of /autolink does with a rejected fetch(fileUrl)
FetchRejected(q) == Catch500(q, FetchError)

\* const upstream = await fetch(fileUrl) rejected
FetchReject(r) ==
  /\ req[r].pc = "fetching"
  /\ req' = [req EXCEPT ![r] = FetchRejected(req[r])]
  /\ UNCHANGED <<shared, pages>>

\* if (!upstream.ok) return res.status(502).json(...)
FetchNotOk(r) ==
  /\ req[r].pc = "fetching"
  /\ \E st \in {404, 500} :
       req' = [req EXCEPT ![r] =
         Reply(req[r], 502, [error |-> "Failed fetch file", status |-> st])]
  /\ UNCHANGED <<shared, pages>>

\* content-type and content-disposition of the file response ("" when absent)
UpstreamHeaders ==
  { [type |-> "", disposition |-> ""],
    [type |-> "video/mp4", disposition |-> "attachment"] }

\* upstream.ok: the headers are set and upstream.body is piped into the response
FetchOk(r) ==
  /\ req[r].pc = "fetching"
  /\ \E h \in UpstreamHeaders :
       req' = [req EXCEPT ![r] =
         [req[r] EXCEPT !.pc = "streaming",
            !.res = [status |-> 200, started |-> TRUE, ended |-> FALSE,
                     body |-> [contentType |-> IF h.type # "" THEN h.type
                                               ELSE "application/octet-stream",
                               contentDisposition |-> h.disposition,
                               stream |-> "open"]]]]
  /\ UNCHANGED <<shared, pages>>

\* the piped stream ended: pipe ends the response
StreamEnd(r) ==
  /\ req[r].pc = "streaming"
  /\ req' = [req EXCEPT ![r] = [Returned(req[r]) EXCEPT !.res.ended = TRUE,
                                                         !.res.body.stream = "complete"]]
  /\ UNCHANGED <<shared, pages>>

\* upstream.body emitted 'error': the listener ends the response
StreamError(r) ==
  /\ req[r].pc = "streaming"
  /\ req' = [req EXCEPT ![r] = [Returned(req[r]) EXCEPT !.res.ended = TRUE,
                                                         !.res.body.stream = "cut"]]
  /\ UNCHANGED <<shared, pages>>

-----------------------------------------------------------------------------
Next ==
  \E r \in DOMAIN req :
    \/ AutolinkStart(r)
    \/ LoginStart(r)
    \/ LaunchOk(r)
    \/ LaunchFail(r)
    \/ Poll(r)
    \/ NewPageOk(r)
    \/ NewPageFail(r)
    \/ SetCookieDone(r)
    \/ SetViewportOk(r)
    \/ SetViewportFail(r)
    \/ Probe(r)
    \/ LoginCallOk(r)
    \/ LoginCallThrows(r)
    \/ LoginProbe(r)
    \/ LoginBodyText(r)
    \/ GotoSiteDone(r)
    \/ EvaluateOk(r)
    \/ EvaluateUndefined(r)
    \/ EvaluateFail(r)
    \/ CloseDone(r)
    \/ FetchReject(r)
    \/ FetchNotOk(r)
    \/ FetchOk(r)
    \/ StreamEnd(r)
    \/ StreamError(r)

Spec == Init /\ [][Next]_vars

-----------------------------------------------------------------------------
(* SpecPool: more concurrent requests, followed through ensureBrowser only *)
(* (up to the call of b.newPage or the reply of a failed call).            *)

InitPool ==
  /\ browser = 0
  /\ browserLaunching = FALSE
  /\ launchLog = <<>>
  /\ pages = {}
  /\ env \in Envs
  /\ req = [r \in 1..NCallers |-> Fresh]

NextPool ==
  \E r \in DOMAIN req :
    \/ AutolinkStart(r)
    \/ LoginStart(r)
    \/ LaunchOk(r)
    \/ LaunchFail(r)
    \/ Poll(r)

SpecPool == InitPool /\ [][NextPool]_vars

-----------------------------------------------------------------------------
(* SpecSerial: the requests are served one after the other, each by its    *)
(* whole handler.  A request arrives only when no other is in flight, so   *)
(* no call of ensureBrowser ever waits.  It is the specification for what  *)
(* a handler does with its own request: validation, page, result, reply.   *)

Quiet == \A p \in DOMAIN req : req[p].pc \in {"idle", "done"}

NextSerial ==
  \E r \in DOMAIN req :
    \/ Quiet /\ AutolinkStart(r)
    \/ Quiet /\ LoginStart(r)
    \/ LaunchOk(r)
    \/ LaunchFail(r)
    \/ NewPageOk(r)
    \/ NewPageFail(r)
    \/ SetCookieDone(r)
    \/ SetViewportOk(r)
    \/ SetViewportFail(r)
    \/ Probe(r)
    \/ LoginCallOk(r)
    \/ LoginCallThrows(r)
    \/ LoginProbe(r)
    \/ LoginBodyText(r)
    \/ GotoSiteDone(r)
    \/ EvaluateOk(r)
    \/ EvaluateUndefined(r)
    \/ EvaluateFail(r)
    \/ CloseDone(r)
    \/ FetchReject(r)
    \/ FetchNotOk(r)
    \/ FetchOk(r)
    \/ StreamEnd(r)
    \/ StreamError(r)

SpecSerial == Init /\ [][NextSerial]_vars

-----------------------------------------------------------------------------
(* SpecScan: the materialization of an upstream answer.  One /autolink     *)
(* request has its 200 answer, with any payload of ScanPayloads as body,   *)
(* and is closing its page; the handler goes on from there.                *)

OtherUrl == <<"h","t","t","p","s",":","/","/","g","/","y">>

\* the sequences over S with at most n elements
UpTo(S, n) == UNION { [1..k -> S] : k \in 0..n }

\* the property names of the generated objects, by position
ScanKeys == <<"link", "a", "b", "c">>

\* the object with the values vs, in this order
ObjOf(vs) == Obj([i \in 1..Len(vs) |-> Prop(ScanKeys[i], vs[i])])

\* values without parts: null, numbers, a boolean, strings that do not start with
\* 'http' (one of them a proper prefix of it, one containing it), and two that do
ScanAtoms ==
  { Null, Num(0), Num(7), Bool(TRUE), Str(<<"h","t","t">>),
    Str(<<"x","h","t","t","p">>), Str(<<"h","t","t","p">>), Str(FileUrl) }

\* the parts of the payloads that are nested twice or more
ScanParts ==
  { Num(0), Str(FileUrl), Arr(<<>>), Arr(<<Str(OtherUrl)>>),
    Arr(<<Null, Str(<<"h","t","t">>)>>),
    Obj(<<Prop("u", Arr(<<Bool(TRUE), Str(OtherUrl)>>))>>) }

\* parsed JSON bodies: the atoms, the arrays and objects of atoms, and the arrays
\* and objects of parts
ScanPayloads ==
  ScanAtoms
    \cup { Arr(vs) : vs \in UpTo(ScanAtoms, MaxWidth) }
    \cup { ObjOf(vs) : vs \in UpTo(ScanAtoms, MaxWidth) }
    \cup { Arr(vs) : vs \in UpTo(ScanParts, MaxWidth) }
    \cup { ObjOf(vs) : vs \in UpTo(ScanParts, MaxWidth) }

\* the request after page.evaluate returned {status: 200, body: payload}
Scanning(payload, download) ==
  LET net == Net("ok", 200, "ok", TRUE, payload, "") IN
  [Fresh EXCEPT !.pc = "closing", !.route = "autolink",
                !.body = Obj(<<Prop("url", Str(TargetUrl)), Prop("download", download)>>),
                !.download = download, !.page = 1,
                !.result = InPageCall(net), !.net = net]

InitScan ==
  /\ browser = 1
  /\ browserLaunching = FALSE
  /\ launchLog = <<[st |-> "ok", message |-> ""]>>
  /\ pages = {1}
  /\ env \in Envs
  /\ \E payload \in ScanPayloads, download \in {Bool(TRUE), Bool(FALSE)} :
       req = [r \in {1} |-> Scanning(payload, download)]

NextScan ==
  \E r \in DOMAIN req :
    \/ CloseDone(r)
    \/ FetchReject(r)
    \/ FetchNotOk(r)
    \/ FetchOk(r)
    \/ StreamEnd(r)
    \/ StreamError(r)

SpecScan == InitScan /\ [][NextScan]_vars

-----------------------------------------------------------------------------
(* SpecFair: requests without end.  Only the steps of ensureBrowser are    *)
(* taken, as in SpecPool, but the client of an answered request may send   *)
(* another one, so a run can go on for ever.  Every launch settles, and    *)
(* the 200 ms timer of a waiting call fires again and again: a waiting     *)
(* call whose loop condition stays false leaves the loop.  Nothing forces  *)
(* a request to arrive.                                                    *)

\* launch k is the live browser, or some request in rq started it or found it in flight
Referred(k, rq) ==
  browser = k \/ \E p \in DOMAIN rq : rq[p].mine = k \/ rq[p].saw = k

\* the launches the history keeps: all but the failed ones no request in rq refers to
Kept(rq) == {k \in DOMAIN launchLog : launchLog[k].st # "failed" \/ Referred(k, rq)}

\* the number of launch k among the kept ones (0 stays "none")
Renumber(k, rq) == IF k = 0 THEN 0 ELSE Cardinality({j \in Kept(rq) : j <= k})

\* an answered request leaves, and its client may send another one.  The history
\* forgets the failed launches that no request refers to any more, and numbers
\* the remaining ones anew.
Again(r) ==
  /\ req[r].pc = "done"
  /\ LET rq == [req EXCEPT ![r] = Fresh] IN
       /\ req' = [p \in DOMAIN rq |->
                    [rq[p] EXCEPT !.mine = Renumber(@, rq), !.saw = Renumber(@, rq),
                                  !.b = Renumber(@, rq)]]
       /\ launchLog' = [i \in 1..Cardinality(Kept(rq)) |->
                          launchLog[CHOOSE k \in Kept(rq) : Renumber(k, rq) = i]]
       /\ browser' = Renumber(browser, rq)
  /\ UNCHANGED <<browserLaunching, pages, env>>

NextFair ==
  \E r \in DOMAIN req :
    \/ AutolinkStart(r)
    \/ LoginStart(r)
    \/ LaunchOk(r)
    \/ LaunchFail(r)
    \/ Poll(r)
    \/ Again(r)

\* puppeteer.launch settles (it has a timeout), and the timer of the loop fires
Fairness ==
  \A r \in 1..NReq :
    /\ WF_vars(LaunchOk(r) \/ LaunchFail(r))
    /\ WF_vars(Poll(r))

SpecFair == Init /\ [][NextFair]_vars /\ Fairness

-----------------------------------------------------------------------------
(* Properties of ensureBrowser (SpecPool).                                 *)

Launches == DOMAIN launchLog
LaunchesIn(st) == {k \in Launches : launchLog[k].st = st}
Callers == DOMAIN req

\* C1: at most one browser process has been launched and is live, at most one
\* puppeteer.launch is in flight, at most one caller is the one launching, and
\* browserLaunching is set whenever a launch is in flight.
C1_OneBrowserOneLaunch ==
  /\ Cardinality(LaunchesIn("ok")) <= 1
  /\ Cardinality(LaunchesIn("pending")) <= 1
  /\ Cardinality(LaunchesIn("ok") \cup LaunchesIn("pending")) <= 1
  /\ Cardinality({r \in Callers : req[r].pc = "launching"}) <= 1
  /\ (LaunchesIn("pending") # {}) => browserLaunching

\* a launch is in flight while two other callers wait for it
C1_Witness ==
  /\ \E r \in Callers : req[r].pc = "launching"
  /\ Cardinality({r \in Callers : req[r].pc = "waiting"}) >= 2

\* the callers whose ensureBrowser call started launch k or found it in flight
CallersOf(k) == {r \in Callers : req[r].mine = k \/ req[r].saw = k}

\* C2: when a launch succeeded, exactly one caller performed it, every caller that
\* overlapped it and has returned holds the handle of that launch, and no launch
\* was started after it.
C2_OverlappingCallsShareHandle ==
  \A k \in LaunchesIn("ok") :
    /\ Cardinality({r \in Callers : req[r].mine = k}) = 1
    /\ \A r \in CallersOf(k) :
         req[r].pc # "waiting" => req[r].pc = "newPage" /\ req[r].b = k
    /\ Len(launchLog) = k

\* three calls overlapped one launch and all returned its handle
C2_Witness ==
  \E k \in LaunchesIn("ok") :
    /\ Cardinality(CallersOf(k)) >= 3
    /\ \A r \in CallersOf(k) : req[r].pc = "newPage" /\ req[r].b = k

\* C3 (as claimed): a caller that waited on a launch that failed fails with that
\* launch error: its request answers 500 with the message of the failed launch.
C3_WaitersGetLaunchError ==
  \A r \in Callers :
    (req[r].saw > 0 /\ launchLog[req[r].saw].st = "failed" /\ req[r].pc # "waiting")
      => /\ req[r].pc = "done"
         /\ req[r].res.status = 500
         /\ req[r].res.body.error = launchLog[req[r].saw].message

\* the request that made launch k
LauncherOf(k) == CHOOSE r \in Callers : req[r].mine = k

\* C4: a step in which a launch fails leaves browser = null and browserLaunching =
\* false, answers the launching request with 500 and the launch error's message,
\* and starts no launch; and whenever no handle exists and no launch is in flight,
\* also after failures, a call of ensureBrowser starts a new launch.
C4_FailedLaunchIsNotCached ==
  [][ /\ \A k \in Launches :
           (launchLog[k].st = "pending" /\ launchLog'[k].st = "failed")
             => /\ browser' = 0
                /\ browserLaunching' = FALSE
                /\ Len(launchLog') = Len(launchLog)
                /\ req'[LauncherOf(k)].pc = "done"
                /\ req'[LauncherOf(k)].res.status = 500
                /\ req'[LauncherOf(k)].res.body.error = launchLog'[k].message
      /\ \A r \in Callers :
           ( /\ req[r].pc = "idle" /\ req'[r].pc # "idle" /\ req'[r].res.status # 400
             /\ browser = 0
             /\ LaunchesIn("pending") = {} )
             => /\ req'[r].pc = "launching"
                /\ launchLog' = Append(launchLog, Pending)
                /\ browserLaunching'
    ]_vars

\* a launch failed, its request answered 500, and a later call launched again
C4_Witness ==
  \E k \in LaunchesIn("failed") :
    /\ req[LauncherOf(k)].res.status = 500
    /\ req[LauncherOf(k)].res.body.error = launchLog[k].message
    /\ Len(launchLog) > k

-----------------------------------------------------------------------------
(* Properties of the request handlers.                                     *)

\* C5: once the handle is set, every step keeps it (no handler resets it, on any
\* path) and starts no launch, and a call of ensureBrowser made from then on, and
\* a waiting call that stops waiting, returns that handle in the same step.
C5_HandleIsKept ==
  [][ browser # 0 =>
        /\ browser' = browser
        /\ launchLog' = launchLog
        /\ ~browserLaunching'
        /\ \A r \in Callers :
             ( \/ /\ req[r].pc = "idle"
                  /\ req'[r].pc # "idle"
                  /\ req'[r].res.status # 400
               \/ /\ req[r].pc = "waiting"
                  /\ req'[r].pc # "waiting" )
               => req'[r].pc = "newPage" /\ req'[r].b = browser
    ]_vars

\* the handle exists, a request has ended with an error after using it, and a
\* later call of ensureBrowser returned the handle at once, without launch or wait
C5_Witness ==
  /\ browser # 0
  /\ \E r \in Callers : req[r].pc = "done" /\ req[r].res.status = 500
  /\ \E r \in Callers :
       req[r].pc = "newPage" /\ req[r].b = browser /\ req[r].mine = 0 /\ req[r].saw = 0

\* C6 (as claimed): a request that has produced its response has no page open.
C6_PageClosedAtResponse ==
  \A r \in Callers : req[r].res.started => r \notin pages

\* the url member of a request body, as the destructuring reads it
UrlOf(body) == Get(OrElse(body, Obj(<<>>)), "url")

\* C7: an /autolink request whose body has no url, an empty url or a url that is
\* not a string is answered 400, whatever its other fields and the browser state.
C7_MissingUrlIs400 ==
  \A r \in Callers :
    ( /\ req[r].route = "autolink"
      /\ (UrlOf(req[r].body).t # "string" \/ UrlOf(req[r].body).s = <<>>) )
      => /\ req[r].pc = "done"
         /\ req[r].res.status = 400
         /\ req[r].res.body = [error |-> "Missing \"url\" in body"]

\* a body with download and a number as url was answered 400 while a browser
\* launch was in flight, and another one with an empty url
C7_Witness ==
  /\ browserLaunching
  /\ \E r \in Callers :
       /\ UrlOf(req[r].body) = Num(5)
       /\ Truthy(Get(req[r].body, "download"))
       /\ req[r].res.status = 400
  /\ \E r \in Callers :
       /\ UrlOf(req[r].body) = Str(<<>>)
       /\ req[r].res.status = 400

\* the result is an upstream answer with a status other than 0 and 200
IsUpstreamError(result) == Truthy(result) /\ result.status \notin {0, 200}

C10_FetchFailureIs502 ==
  [][ \A r \in Callers :
        (req[r].pc = "fetching" /\ req'[r].pc = "done") => req'[r].res.status = 502
    ]_vars

\* the positions of a request inside the probe and the login attempt
LoginPath == {"probe", "lg_probe", "lg_bodyText"} \cup LoginCalls

\* C11: in /autolink no step of the authentication probe or of the login attempt,
\* whatever it returns or throws, ends the request or starts a response: the
\* request stays in the login path or starts the navigation to the target site,
\* and the step that settles that navigation starts the in-page call.
C11_LoginPathIsNotFatal ==
  [][ \A r \in Callers :
        (req[r].route = "autolink" /\ req'[r] # req[r])
          => /\ req[r].pc \in LoginPath
                  => /\ req'[r].pc \in LoginPath \cup {"gotoSite"}
                     /\ ~req'[r].res.started
             /\ req[r].pc = "gotoSite"
                  => /\ req'[r].pc = "evaluate"
                     /\ ~req'[r].res.started
    ]_vars

\* an /autolink request whose login attempt ended with an exception has started
\* the navigation to the target site
C11_Witness ==
  \E r \in Callers :
    /\ req[r].route = "autolink"
    /\ req[r].pc = "gotoSite"
    /\ req[r].attempt = LoginException(StepError)

\* the operator supplied both credentials in the environment
CredentialsSupplied == Truthy(env.GOOGLE_EMAIL) /\ Truthy(env.GOOGLE_PASS)

\* the positions of a request inside the login flow that attemptGoogleLogin drives
LoginFlow == LoginPath \ {"probe"}

\* C12 (as claimed): when GOOGLE_EMAIL / GOOGLE_PASS are not supplied by the
\* configuration, no request ever drives the login flow: none is inside
\* attemptGoogleLogin past its credentials test.
C12_NoLoginWithoutCredentials ==
  \A r \in Callers : ~CredentialsSupplied => req[r].pc \notin LoginFlow

\* what attemptGoogleLogin returned to its caller: /login keeps it to answer with,
\* /autolink only logs it
Outcome(q) == IF q.route = "login" THEN q.result ELSE q.attempt

\* C13: every step in which a login flow ends, whichever call failed, returns to
\* the caller (the request goes on to close the page or to the target site, no
\* response is started by it) a LoginOutcome that has ok = false and a reason, or
\* ok = true; and ok = true is returned only by the step in which the probe run
\* after the flow reported authenticated.
C13_LoginAttemptNeverThrows ==
  [][ \A r \in Callers :
        (req[r].pc \in LoginFlow /\ req'[r].pc \notin LoginFlow)
          => /\ req'[r].pc = IF req[r].route = "login" THEN "closing" ELSE "gotoSite"
             /\ ~req'[r].res.started
             /\ Outcome(req'[r]).ok \in BOOLEAN
             /\ ~Outcome(req'[r]).ok
                  => /\ "reason" \in DOMAIN Outcome(req'[r])
                     /\ Outcome(req'[r]).reason.text # ""
             /\ Outcome(req'[r]).ok
                  => /\ req[r].pc = "lg_probe"
                     /\ req'[r].probe.ran
                     /\ req'[r].probe.logged
    ]_vars

\* one /login request was answered with the outcome of a successful login, and the
\* login flow of another one ended with an exception that was returned as outcome
C13_Witness ==
  /\ \E r \in Callers :
       req[r].route = "login" /\ req[r].pc = "done" /\ req[r].res.body = [ok |-> TRUE]
  /\ \E r \in Callers :
       /\ req[r].route = "login"
       /\ req[r].pc = "closing"
       /\ req[r].result = LoginException(StepError)

\* the position of the first c in s at or after position i, Len(s) + 1 when none
Find(s, c, i) ==
  IF \E j \in i..Len(s) : s[j] = c
  THEN CHOOSE j \in i..Len(s) : s[j] = c /\ \A k \in i..(j - 1) : s[k] # c
  ELSE Len(s) + 1

\* the host of an absolute URL (between "//" and the next "/"), and its path (from
\* that "/" to the "?" of the query)
HostStart(url) == Find(url, "/", 1) + 2
HostOf(url) == SubSeq(url, HostStart(url), Find(url, "/", HostStart(url)) - 1)
PathOf(url) ==
  LET p == Find(url, "/", HostStart(url))
  IN SubSeq(url, p, Find(url, "?", p) - 1)

\* the URL is on the sign-in domain of the identity provider, or on a sign-in path
OnSignInPage(url) ==
  \/ HostOf(url) = <<"a","c","c","o","u","n","t","s",".","g","o","o","g","l","e",".","c","o","m">>
  \/ Includes(PathOf(url), <<"s","i","g","n","i","n">>)

\* C14 (as claimed): isGoogleLoggedIn returns false when its navigation throws and
\* when the final URL is on the sign-in domain or a sign-in path, and true for
\* every other final URL, the account-status URL it navigated to included.
C14_ProbeClassifiesFinalUrl ==
  \A r \in Callers :
    req[r].probe.ran
      => req[r].probe.logged = (req[r].probe.ok /\ ~OnSignInPage(req[r].probe.url))

\* C15 (as claimed): every call of ensureBrowser that finds a launch in progress
\* eventually returns or fails, when every launch settles and the poll timer keeps
\* firing, also when launches fail and other requests start new launches meanwhile.
C15_WaiterEventuallyReturns ==
  \A r \in 1..NReq : (req[r].pc = "waiting") ~> (req[r].pc # "waiting")

\* C16: within one request, a login attempt starts only in the step in which the
\* first probe returned, and only when it returned not-authenticated; in /login
\* a probe that returned authenticated goes on to answer 'Already logged in'
\* without a login attempt; in /autolink the navigation to the target site starts
\* only out of the probe or the login attempt, and the in-page call starts only
\* in the step in which that navigation settled.
C16_StepsAreOrdered ==
  [][ \A r \in Callers :
        req'[r] # req[r]
          => /\ (req'[r].pc \in LoginFlow /\ req[r].pc \notin LoginFlow)
                  => /\ req[r].pc = "probe"
                     /\ req'[r].pc = "lg_setUserAgent"
                     /\ req'[r].probe.ran
                     /\ ~req'[r].probe.logged
             /\ (req[r].route = "login" /\ req[r].pc = "probe" /\ req'[r].probe.logged)
                  => /\ req'[r].pc = "closing"
                     /\ req'[r].result =
                          [ok |-> TRUE, message |-> "Already logged in (detected)"]
             /\ req'[r].pc = "gotoSite"
                  => req[r].route = "autolink" /\ req[r].pc \in LoginPath
             /\ req'[r].pc = "evaluate" => req[r].pc = "gotoSite"
    ]_vars

\* an /autolink request went through its steps to a 200 reply, and the probe of a
\* /login request has just returned authenticated: the request closes its page to
\* answer 'Already logged in'
C16_Witness ==
  /\ \E r \in Callers :
       req[r].route = "autolink" /\ req[r].pc = "done" /\ req[r].res.status = 200
  /\ \E r \in Callers :
       /\ req[r].route = "login"
       /\ req[r].pc = "closing"
       /\ req[r].probe.logged
       /\ req[r].result = [ok |-> TRUE, message |-> "Already logged in (detected)"]

RECURSIVE Leaves(_), Flatten(_)

\* the concatenation of the sequences of ss
Flatten(ss) == IF ss = <<>> THEN <<>> ELSE Head(ss) \o Flatten(Tail(ss))

\* the strings, numbers, booleans and nulls of a value, in depth-first order
\* (array order, key order)
Leaves(v) ==
  IF v.t = "array" THEN Flatten([i \in 1..Len(v.items) |-> Leaves(v.items[i])])
  ELSE IF v.t = "object" THEN Flatten([i \in 1..Len(v.props) |-> Leaves(v.props[i].v)])
  ELSE <<v>>

\* a string whose first four characters are h, t, t, p
IsHttp(v) ==
  /\ v.t = "string"
  /\ Len(v.s) >= 4
  /\ v.s[1] = "h" /\ v.s[2] = "t" /\ v.s[3] = "t" /\ v.s[4] = "p"

\* the first such string among the leaves, null when there is none
FirstHttp(v) ==
  LET ls   == Leaves(v)
      hits == {i \in 1..Len(ls) : IsHttp(ls[i])}
  IN IF hits = {} THEN Null ELSE ls[CHOOSE i \in hits : \A j \in hits : i <= j]

\* C17: when /autolink materializes a 200 answer with download set, the scan of
\* the payload gives the first string in depth-first order that starts with
\* 'http', and null when there is none; a second run on the same payload gives
\* what the first one gave; when it gives null the reply is 200 with the notice
\* 'No direct file URL found' and the raw payload, and otherwise the file found
\* is the one that is fetched.
C17_ScanIsFirstMatch ==
  [][ \A r \in Callers :
        ( /\ req[r].route = "autolink" /\ req[r].pc = "closing"
          /\ req'[r].pc # "closing"
          /\ Truthy(req[r].result) /\ req[r].result.status = 200
          /\ Truthy(req[r].download) )
          => LET payload == req[r].result.body IN
             /\ findUrl(payload) = FirstHttp(payload)
             /\ IF FirstHttp(payload) = Null
                THEN /\ req'[r].pc = "done"
                     /\ req'[r].res =
                          [status |-> 200, started |-> TRUE, ended |-> TRUE,
                           body |-> [message |-> "No direct file URL found",
                                     payload |-> payload]]
                ELSE /\ req'[r].pc = "fetching"
                     /\ req'[r].fileUrl = FirstHttp(payload)
                     /\ req'[r].fileUrl = findUrl(payload)
                     /\ ~req'[r].res.started
    ]_vars

\* the scan gave a URL that the payloads only have inside an array that is itself
\* an element or a property value, and that file is being fetched
C17_Witness ==
  \E r \in Callers :
    /\ req[r].route = "autolink"
    /\ req[r].pc = "fetching"
    /\ req[r].fileUrl = Str(OtherUrl)

\* C18: the step in which an /autolink request is rejected with 400 leaves
\* browser, browserLaunching, the launches and the open pages as they were, and
\* every other request where it was; the rejected request has started no launch
\* and waited for none.
C18_RejectedRequestChangesNothing ==
  [][ \A r \in Callers :
        (req[r].pc = "idle" /\ req'[r].pc = "done" /\ req'[r].res.status = 400)
          => /\ browser' = browser
             /\ browserLaunching' = browserLaunching
             /\ launchLog' = launchLog
             /\ pages' = pages
             /\ req'[r].mine = 0 /\ req'[r].saw = 0
             /\ \A p \in Callers \ {r} : req'[p] = req[p]
    ]_vars

\* a request was rejected with 400 while one request was launching the browser
\* and another was waiting for that launch, which is still the only one
C18_Witness ==
  /\ launchLog = <<Pending>>
  /\ \E r \in Callers : req[r].pc = "launching"
  /\ \E r \in Callers : req[r].pc = "waiting"
  /\ \E r \in Callers : req[r].pc = "done" /\ req[r].res.status = 400

\* some operation request r awaits settles (r is not waiting for a launch here)
Settles(r) ==
  \/ LaunchOk(r) \/ LaunchFail(r)
  \/ NewPageOk(r) \/ NewPageFail(r)
  \/ SetViewportOk(r) \/ SetViewportFail(r)
  \/ Probe(r)
  \/ LoginCallOk(r) \/ LoginCallThrows(r) \/ LoginProbe(r) \/ LoginBodyText(r)
  \/ GotoSiteDone(r)
  \/ EvaluateOk(r) \/ EvaluateUndefined(r) \/ EvaluateFail(r)
  \/ CloseDone(r)
  \/ FetchReject(r) \/ FetchNotOk(r) \/ FetchOk(r)
  \/ StreamEnd(r) \/ StreamError(r)

\* the handler and the stream of request r have both ended
Over(q) == q.pc = "done"

\* C19: an /autolink request that is not over can always go on when what it awaits
\* settles; when it is over it has one response, started and ended; before that
\* it has none, except while its file is being streamed, when the response is
\* started and not ended; and a response that was started is never replaced: a
\* step only ends the open stream, and changes nothing once it is ended.
C19_OneTerminalResponse ==
  /\ [](\A r \in 1..NReq :
          (req[r].route = "autolink" /\ ~Over(req[r])) => ENABLED Settles(r))
  /\ [][ \A r \in Callers :
           req'[r].route = "autolink"
             => /\ Over(req'[r]) => req'[r].res.started /\ req'[r].res.ended
                /\ req'[r].pc = "streaming"
                     => req'[r].res.started /\ ~req'[r].res.ended
                /\ req'[r].pc \notin {"done", "streaming"} => ~req'[r].res.started
                /\ req[r].res.ended => req'[r].res = req[r].res /\ Over(req'[r])
                /\ (req[r].res.started /\ ~req[r].res.ended /\ req'[r] # req[r])
                     => /\ req'[r].res.ended
                        /\ req'[r].res.status = req[r].res.status
                        /\ req'[r].res.body.contentType = req[r].res.body.contentType
                        /\ req'[r].res.body.stream \in {"complete", "cut"}
      ]_vars

\* one /autolink request was answered by a file stream that broke off and was
\* ended, and another one by the 500 of the top-level catch
C19_Witness ==
  /\ \E r \in Callers :
       /\ req[r].route = "autolink" /\ Over(req[r])
       /\ req[r].res.status = 200 /\ req[r].res.ended
       /\ req[r].res.body = [contentType |-> "video/mp4",
                              contentDisposition |-> "attachment", stream |-> "cut"]
  /\ \E r \in Callers :
       /\ req[r].route = "autolink" /\ Over(req[r])
       /\ req[r].res.status = 500 /\ req[r].res.ended

====
